---- MODULE Spec2Model ----
(***************************************************************************)
(* Model of src/groupCache.ts: class GroupCache.                           *)
(*                                                                         *)
(* A promise of loadGroups is a "refresh", named by its index in the       *)
(* sequence refreshes; index 0 stands for "no promise" (undefined).  The   *)
(* value a refresh fulfils with is the array its own listing call          *)
(* returned, and the error it rejects with is its own error, so both are   *)
(* named by the index of the refresh.  An optional Subscription            *)
(* (Subscription | undefined) is a sequence of length at most one.         *)
(*                                                                         *)
(* JavaScript runs promise reactions as microtasks, in the order in which  *)
(* they were registered, and runs no timer callback while a microtask is   *)
(* queued.  The settlement of a refresh, its completion callback           *)
(* (lines 66-72) and the resolution of each caller are therefore separate  *)
(* steps: other code (fetchGroups, a notification) may run between them,   *)
(* a timer may not.                                                        *)
(***************************************************************************)
EXTENDS Integers, Sequences, FiniteSets, TLC

\* ------------------------------------------------------------- bounds ----
MaxRefreshes ==
  2

MaxCalls ==
  3

\* ------------------------------------------------------ value domains ----
Subs ==
  {"s1", "s2"}

Tenants ==
  {"t1"}

Sub(id, tenantId, isDefault) ==
  [id |-> id, tenantId |-> tenantId, isDefault |-> isDefault]

\* The lists subscriptionWatcher.subscriptions takes: empty, without a
\* default, with one default (first or second entry), and with two
\* entries marked default.
SubscriptionLists ==
  { <<>>,
    <<Sub("s1", "t1", FALSE)>>,
    <<Sub("s1", "t1", TRUE)>>,
    <<Sub("s1", "t1", FALSE), Sub("s2", "t1", TRUE)>>,
    <<Sub("s1", "t1", TRUE), Sub("s2", "t1", TRUE)>> }

\* The lists the watcher takes once nobody listens: logged out, and one
\* default.
UnheardLists ==
  { <<>>, <<Sub("s1", "t1", TRUE)>> }

\* ------------------------------------------------------------- state -----
VARIABLES
  subscriptions,        \* subscriptionWatcher.subscriptions
  credentials,          \* tenants loginWatcher has credentials for
  defaultSubscription,  \* this.defaultSubscription (optional Subscription)
  current,              \* this.current : id -> promise (0 = absent)
  updates,              \* this.updates : id -> promise (0 = absent)
  refreshes,            \* the promises returned by loadGroups
  calls,                \* the promises returned by updateGroups
  disposed,             \* dispose() has released the listener
  last                  \* what the most recent operation observed and did

vars ==
  <<subscriptions, credentials, defaultSubscription, current, updates,
    refreshes, calls, disposed, last>>

cacheVars ==
  <<defaultSubscription, current, updates, refreshes, calls>>

\* --------------------------------------------------------- helpers -------
\* Array.prototype.find(s => s.isDefault): the first default, or undefined.
RECURSIVE Find(_)
Find(list) ==
  IF list = <<>> THEN <<>>
  ELSE IF Head(list).isDefault THEN <<Head(list)>>
  ELSE Find(Tail(list))

\* (x && x.id): undefined for no subscription, else its id.
IdOf(opt) ==
  IF opt = <<>> THEN "undefined" ELSE opt[1].id

\* loginWatcher.lookupCredentials(tenantId): credentials or undefined.
lookupCredentials(creds, tenantId) ==
  tenantId \in creds

\* if (!update): no PendingRefresh entry was found for the id.
NeedsLoadAlways(update) ==
  TRUE

NeedsLoad(update) ==
  update = 0

\* if (current): the call returns the race of line 77, not line 79.
RacesAlways(cur) ==
  TRUE

RacesNever(cur) ==
  FALSE

Races(cur) ==
  cur # 0

\* The state of the cache object as one record, so that the constructor
\* and the handlers are functions from state to state.
CacheState ==
  [defaultSubscription |-> defaultSubscription, current |-> current,
   updates |-> updates, refreshes |-> refreshes, calls |-> calls]

Blank ==
  [defaultSubscription |-> <<>>, current |-> [s \in Subs |-> 0],
   updates |-> [s \in Subs |-> 0], refreshes |-> <<>>, calls |-> <<>>]

\* updateGroups, up to its return (lines 58-80).  A call records the local
\* "update" before (found) and after (update) the if, the local "current"
\* (cur) and, when it races, an armed 500ms timer.
updateGroups(st, subscription) ==
  LET id     == subscription.id
      found  == st.updates[id]
      starts == NeedsLoad(found)
      update == IF starts THEN Len(st.refreshes) + 1 ELSE found
      cur    == st.current[id]
      call   == [sub |-> id, found |-> found,
                 update |-> update, cur |-> cur, state |-> "pending",
                 value |-> 0, via |-> "none",
                 timer |-> IF Races(cur) THEN "armed" ELSE "none",
                 firedPending |-> FALSE]
  IN [st EXCEPT
        !.refreshes = IF starts
                      THEN Append(@, [sub |-> id, state |-> "pending",
                                      handled |-> FALSE])
                      ELSE @,
        !.updates   = IF starts THEN [@ EXCEPT ![id] = update] ELSE @,
        !.calls     = Append(@, call)]

\* Whether the bounds leave room for a call of updateGroups.
CanCall(st, subscription) ==
  /\ Len(st.calls) < MaxCalls
  /\ NeedsLoad(st.updates[subscription.id]) => Len(st.refreshes) < MaxRefreshes

\* The comparison of line 36.
DefaultChangedAlways(st, subs) ==
  TRUE

DefaultChangedPresence(st, subs) ==
  (st.defaultSubscription = <<>>) # (Find(subs) = <<>>)

DefaultChanged(st, subs) ==
  IdOf(st.defaultSubscription) # IdOf(Find(subs))

\* Whether onSubscriptionUpdated reaches the call of line 41.
NotifyRefreshesUnchecked(st, subs, creds) ==
  /\ IdOf(st.defaultSubscription) # IdOf(Find(subs))
  /\ Find(subs) # <<>>

NotifyRefreshes(st, subs, creds) ==
  /\ DefaultChanged(st, subs)
  /\ Find(subs) # <<>>
  /\ lookupCredentials(creds, Find(subs)[1].tenantId)

\* onSubscriptionUpdated (lines 34-45).
onSubscriptionUpdated(st, subs, creds) ==
  LET d == Find(subs) IN
  IF DefaultChanged(st, subs)
  THEN LET st1 == [st EXCEPT !.defaultSubscription = d] IN
       IF NotifyRefreshes(st, subs, creds)
       THEN updateGroups(st1, d[1])
       ELSE st1
  ELSE st

\* What a notification observed and did.
NotifyRecord(st, subs, creds) ==
  [op |-> "notify",
   outcome |-> IF ~DefaultChanged(st, subs) THEN "noop"
               ELSE IF NotifyRefreshes(st, subs, creds) THEN "refresh"
               ELSE "stored"]

Event(op) ==
  [op |-> op, outcome |-> "none"]

Install(st) ==
  /\ defaultSubscription' = st.defaultSubscription
  /\ current' = st.current
  /\ updates' = st.updates
  /\ refreshes' = st.refreshes
  /\ calls' = st.calls

\* ------------------------------------------------------------ Init -------
\* The constructor (lines 29-32) registers the listener and runs
\* onSubscriptionUpdated once on the fresh object.
Init ==
  /\ subscriptions \in SubscriptionLists
  /\ credentials \in SUBSET Tenants
  /\ LET st == onSubscriptionUpdated(Blank, subscriptions, credentials) IN
       /\ defaultSubscription = st.defaultSubscription
       /\ current = st.current
       /\ updates = st.updates
       /\ refreshes = st.refreshes
       /\ calls = st.calls
  /\ disposed = FALSE
  /\ last = Event("constructor")

\* ---------------------------------------------------------- actions ------
\* The subscription watcher replaces its list and fires onUpdated; the
\* listener of line 30 runs onSubscriptionUpdated (until dispose).
OnUpdated(list) ==
  /\ ~disposed
  /\ NotifyRefreshes(CacheState, list, credentials)
       => CanCall(CacheState, Find(list)[1])
  /\ subscriptions' = list
  /\ Install(onSubscriptionUpdated(CacheState, list, credentials))
  /\ last' = NotifyRecord(CacheState, list, credentials)
  /\ UNCHANGED <<credentials, disposed>>

\* After dispose the watcher still replaces its list, and no listener of
\* this object runs.
OnUpdatedUnheard(list) ==
  /\ disposed
  /\ subscriptions' = list
  /\ last' = Event("other")
  /\ UNCHANGED <<credentials, cacheVars, disposed>>

\* The login watcher gains or loses the credentials of a tenant.
LoginChanged(t) ==
  /\ credentials' = IF t \in credentials THEN credentials \ {t}
                    ELSE credentials \cup {t}
  /\ last' = Event("other")
  /\ UNCHANGED <<subscriptions, cacheVars, disposed>>

\* The two guards of fetchGroups (lines 48-54).
NotLoggedInNoDefault(dflt, creds) ==
  dflt = <<>>

NotLoggedIn(dflt, creds) ==
  \/ dflt = <<>>
  \/ ~lookupCredentials(creds, dflt[1].tenantId)

\* fetchGroups (lines 47-56): rejects with 'Not logged in', or returns
\* the promise of updateGroups for the stored default.
FetchGroups ==
  /\ IF NotLoggedIn(defaultSubscription, credentials)
     THEN /\ last' = [op |-> "fetch", outcome |-> "NotLoggedIn"]
          /\ UNCHANGED cacheVars
     ELSE /\ CanCall(CacheState, defaultSubscription[1])
          /\ Install(updateGroups(CacheState, defaultSubscription[1]))
          /\ last' = [op |-> "fetch", outcome |-> "updateGroups"]
  /\ UNCHANGED <<subscriptions, credentials, disposed>>

\* client.resourceGroups.list() settles and with it the promise of
\* loadGroups (lines 82-86): fulfilled with the groups, or rejected.
LoadGroupsSettles(r, ok) ==
  /\ refreshes[r].state = "pending"
  /\ refreshes' = [refreshes EXCEPT
                     ![r].state = IF ok THEN "fulfilled" ELSE "rejected"]
  /\ last' = Event("other")
  /\ UNCHANGED <<subscriptions, credentials, defaultSubscription, current,
                 updates, calls, disposed>>

\* The error callback of lines 69-72: what it leaves in this.current.
CurrentAfterFailureCleared(cur, id) ==
  [cur EXCEPT ![id] = 0]

CurrentAfterFailure(cur, id) ==
  cur

\* The success callback of lines 66-68: what it leaves in this.current.
CurrentAfterSuccessIfDefault(cur, id, r) ==
  IF IdOf(defaultSubscription) = id /\ ~disposed
  THEN [cur EXCEPT ![id] = r] ELSE cur

CurrentAfterSuccess(cur, id, r) ==
  [cur EXCEPT ![id] = r]

\* The callbacks of lines 66-72 leave this.updates without the entry.
UpdatesAfterCompletionAll(upd, id) ==
  [s \in Subs |-> 0]

UpdatesAfterCompletionKept(upd, id) ==
  upd

UpdatesAfterCompletion(upd, id) ==
  [upd EXCEPT ![id] = 0]

\* The completion handling of lines 66-72, the first reaction registered
\* on the promise of loadGroups.
CompletionCallback(r) ==
  LET id == refreshes[r].sub IN
  /\ refreshes[r].state # "pending"
  /\ ~refreshes[r].handled
  /\ refreshes' = [refreshes EXCEPT ![r].handled = TRUE]
  /\ updates' = UpdatesAfterCompletion(updates, id)
  /\ current' = IF refreshes[r].state = "fulfilled"
                THEN CurrentAfterSuccess(current, id, r)
                ELSE CurrentAfterFailure(current, id)
  /\ last' = Event("other")
  /\ UNCHANGED <<subscriptions, credentials, defaultSubscription, calls,
                 disposed>>

\* The promise update.catch(() => current) of line 77, once update has
\* settled: update's value, or the value of current after a failure.
CatchBranchRethrows(c) ==
  [c EXCEPT !.state = refreshes[c.update].state, !.value = c.update,
            !.via = "update"]

CatchBranchStale(c) ==
  [c EXCEPT !.state = "fulfilled", !.value = c.cur, !.via = "catch"]

CatchBranch(c) ==
  IF refreshes[c.update].state = "fulfilled"
  THEN [c EXCEPT !.state = "fulfilled", !.value = c.update, !.via = "update"]
  ELSE [c EXCEPT !.state = "fulfilled", !.value = c.cur, !.via = "catch"]

\* The promise update itself, returned by line 79.
DirectBranchCaught(c) ==
  [c EXCEPT !.state = "fulfilled",
            !.value = IF refreshes[c.update].state = "fulfilled"
                      THEN c.update ELSE c.cur,
            !.via = "update"]

DirectBranch(c) ==
  [c EXCEPT !.state = refreshes[c.update].state, !.value = c.update,
            !.via = "update"]

\* The promise a call returned settles through its refresh.  The caller's
\* reaction was registered after the completion handling of lines 66-72,
\* so it runs after it.
CallSettles(i) ==
  LET c == calls[i] IN
  /\ c.state = "pending"
  /\ refreshes[c.update].state # "pending"
  /\ refreshes[c.update].handled
  /\ calls' = [calls EXCEPT ![i] = IF Races(c.cur) THEN CatchBranch(c)
                                   ELSE DirectBranch(c)]
  /\ last' = Event("other")
  /\ UNCHANGED <<subscriptions, credentials, defaultSubscription, current,
                 updates, refreshes, disposed>>

\* No promise reaction is waiting to run.
MicrotasksDone ==
  /\ \A r \in DOMAIN refreshes :
        refreshes[r].state # "pending" => refreshes[r].handled
  /\ \A i \in DOMAIN calls :
        calls[i].state = "pending" => refreshes[calls[i].update].state = "pending"

\* What the timer of line 77 resolves the race with.
TimerValueOfUpdate(c) ==
  c.update

TimerValue(c) ==
  c.cur

\* The 500ms timer of line 77 fires: it resolves the race with current
\* unless the race is already won.  Timers run between tasks only.
TimerFires(i) ==
  LET c == calls[i] IN
  /\ c.timer = "armed"
  /\ MicrotasksDone
  /\ calls' = [calls EXCEPT ![i] =
       IF c.state = "pending"
       THEN [c EXCEPT !.timer = "fired", !.state = "fulfilled",
                      !.value = TimerValue(c), !.via = "timer",
                      !.firedPending = (refreshes[c.update].state = "pending")]
       ELSE [c EXCEPT !.timer = "fired"]]
  /\ last' = Event("other")
  /\ UNCHANGED <<subscriptions, credentials, defaultSubscription, current,
                 updates, refreshes, disposed>>

\* dispose (lines 106-108) releases the listener of line 30.
Dispose ==
  /\ ~disposed
  /\ disposed' = TRUE
  /\ last' = Event("other")
  /\ UNCHANGED <<subscriptions, credentials, cacheVars>>

Next ==
  \/ \E list \in SubscriptionLists : OnUpdated(list)
  \/ \E list \in UnheardLists : OnUpdatedUnheard(list)
  \/ \E t \in Tenants : LoginChanged(t)
  \/ FetchGroups
  \/ \E r \in DOMAIN refreshes, ok \in BOOLEAN : LoadGroupsSettles(r, ok)
  \/ \E r \in DOMAIN refreshes : CompletionCallback(r)
  \/ \E i \in DOMAIN calls : CallSettles(i)
  \/ \E i \in DOMAIN calls : TimerFires(i)
  \/ Dispose

Spec ==
  Init /\ [][Next]_vars

\* Promise reactions and expired timers are run by the event loop: the
\* completion callback of a settled refresh, the reaction of a caller and
\* a timer callback each run once they can.  Nothing obliges the remote
\* listing to settle, nor anyone to call or notify.
FairSpec ==
  /\ Spec
  /\ \A r \in 1..MaxRefreshes :
        WF_vars(r \in DOMAIN refreshes /\ CompletionCallback(r))
  /\ \A i \in 1..MaxCalls :
        /\ WF_vars(i \in DOMAIN calls /\ CallSettles(i))
        /\ WF_vars(i \in DOMAIN calls /\ TimerFires(i))

TypeOK ==
  /\ subscriptions \in SubscriptionLists
  /\ credentials \subseteq Tenants
  /\ Len(refreshes) <= MaxRefreshes
  /\ Len(calls) <= MaxCalls
  /\ \A s \in Subs : current[s] \in 0..Len(refreshes) /\ updates[s] \in 0..Len(refreshes)

\* ----------------------------------------------------------- claims ------
RefreshesOf(id) ==
  {r \in DOMAIN refreshes : refreshes[r].sub = id}

CallsOf(id) ==
  {i \in DOMAIN calls : calls[i].sub = id}

\* The refresh started last for an id (0 if none was).
LatestRefresh(id) ==
  IF RefreshesOf(id) = {} THEN 0
  ELSE CHOOSE r \in RefreshesOf(id) : \A q \in RefreshesOf(id) : q <= r

\* A step appended a call of updateGroups for id.
NewCall(id) ==
  /\ Len(calls') = Len(calls) + 1
  /\ calls'[Len(calls')].sub = id

\* C1 (deduplication): for every subscription id at most one promise of
\* loadGroups is unsettled, and it is the PendingRefresh entry of the id;
\* a call that finds an entry shares it, and loadGroups has been invoked
\* exactly once per call that found none.
C1_Deduplication ==
  \A id \in Subs :
    /\ Cardinality({r \in RefreshesOf(id) : refreshes[r].state = "pending"}) <= 1
    /\ \A r \in RefreshesOf(id) : refreshes[r].state = "pending" => updates[id] = r
    /\ \A i \in CallsOf(id) : calls[i].found # 0 => calls[i].update = calls[i].found
    /\ Cardinality(RefreshesOf(id))
         = Cardinality({i \in CallsOf(id) : calls[i].found = 0})

\* Three calls for one id share the single refresh that is in flight.
C1_Witness ==
  /\ Len(calls) = 3
  /\ Len(refreshes) = 1
  /\ refreshes[1].state = "pending"
  /\ \A i \in DOMAIN calls : calls[i].update = 1

\* C2 (stale-serves-fast): a call made with a CachedResult whose timer
\* fired while its refresh was still pending is resolved, by the timer,
\* with the CachedResult it found when it was made.
C2_StaleServesFast ==
  \A i \in DOMAIN calls :
    (calls[i].cur # 0 /\ calls[i].timer = "fired" /\ calls[i].firedPending)
      => /\ calls[i].state = "fulfilled"
         /\ calls[i].value = calls[i].cur
         /\ calls[i].via = "timer"

\* A call is resolved with the stale result while its refresh is pending.
C2_Witness ==
  \E i \in DOMAIN calls :
    /\ calls[i].firedPending
    /\ calls[i].state = "fulfilled"
    /\ refreshes[calls[i].update].state = "pending"

\* C3 (fresh-serves-faster): a call made with a CachedResult whose refresh
\* succeeded before its timer fired resolves with the value of that
\* refresh, which is not the stale CachedResult; the timer firing later
\* finds it so resolved.
C3_FreshServesFaster ==
  \A i \in DOMAIN calls :
    (/\ calls[i].cur # 0
     /\ refreshes[calls[i].update].state = "fulfilled"
     /\ ~calls[i].firedPending
     /\ (calls[i].state # "pending" \/ calls[i].timer = "fired"))
      => /\ calls[i].state = "fulfilled"
         /\ calls[i].value = calls[i].update
         /\ calls[i].value # calls[i].cur

\* A racing call got the new result, and its timer has fired since.
C3_Witness ==
  \E i \in DOMAIN calls :
    /\ calls[i].cur # 0
    /\ calls[i].via = "update"
    /\ calls[i].value = calls[i].update
    /\ calls[i].timer = "fired"

\* C4 (first-fetch-blocks): a call made with no CachedResult has no timer,
\* is unsettled while its refresh is pending, and settles only as its
\* refresh did, with the refresh's value or error.
C4_FirstFetchBlocks ==
  \A i \in DOMAIN calls :
    calls[i].cur = 0
      => /\ calls[i].timer = "none"
         /\ calls[i].via # "timer"
         /\ refreshes[calls[i].update].state = "pending"
              => calls[i].state = "pending"
         /\ calls[i].state # "pending"
              => /\ calls[i].state = refreshes[calls[i].update].state
                 /\ calls[i].value = calls[i].update

\* A first fetch resolved with the result of its refresh.
C4_Witness ==
  \E i \in DOMAIN calls :
    /\ calls[i].cur = 0
    /\ calls[i].state = "fulfilled"
    /\ calls[i].value = calls[i].update

\* C5 (failure fallback): a call made with a CachedResult never rejects,
\* and once it settles after its refresh failed it has resolved with that
\* CachedResult, through the catch fallback or through the timer.
C5_FailureFallback ==
  \A i \in DOMAIN calls :
    calls[i].cur # 0
      => /\ calls[i].state # "rejected"
         /\ (refreshes[calls[i].update].state = "rejected"
             /\ calls[i].state # "pending")
              => /\ calls[i].state = "fulfilled"
                 /\ calls[i].value = calls[i].cur
                 /\ calls[i].via \in {"catch", "timer"}

\* The catch fallback served the stale result of a failed refresh.
C5_Witness ==
  \E i \in DOMAIN calls :
    /\ calls[i].cur # 0
    /\ refreshes[calls[i].update].state = "rejected"
    /\ calls[i].via = "catch"
    /\ calls[i].value = calls[i].cur

\* C6 (failure with no fallback): a call made with no CachedResult that
\* has settled after its refresh failed has rejected with the refresh's
\* error, and a call rejects in no other case.
C6_FailureNoFallback ==
  \A i \in DOMAIN calls :
    /\ (/\ calls[i].cur = 0
        /\ refreshes[calls[i].update].state = "rejected"
        /\ calls[i].state # "pending")
         => (calls[i].state = "rejected" /\ calls[i].value = calls[i].update)
    /\ calls[i].state = "rejected"
         => /\ calls[i].cur = 0
            /\ refreshes[calls[i].update].state = "rejected"
            /\ calls[i].value = calls[i].update

\* A first fetch rejected with the error of its refresh.
C6_Witness ==
  \E i \in DOMAIN calls :
    /\ calls[i].cur = 0
    /\ calls[i].state = "rejected"
    /\ calls[i].value = calls[i].update

\* C7 (unauthenticated): a fetchGroups made while the stored default is
\* empty, or while lookupCredentials has nothing for its tenant, rejects
\* with 'Not logged in', whatever CachedResult entries exist.
C7_NotLoggedIn ==
  (/\ last.op = "fetch"
   /\ \/ defaultSubscription = <<>>
      \/ ~lookupCredentials(credentials, defaultSubscription[1].tenantId))
    => last.outcome = "NotLoggedIn"

\* fetchGroups rejected with no default although a CachedResult exists.
C7_Witness ==
  /\ last.op = "fetch"
  /\ last.outcome = "NotLoggedIn"
  /\ defaultSubscription = <<>>
  /\ \E s \in Subs : current[s] # 0

\* C8 (redundant notification): a notification whose default has the id
\* of the stored default (both may be none) leaves the stored default, both
\* maps, the refreshes and the calls as they were.
C8_RedundantNotification ==
  [][(/\ last'.op = "notify"
      /\ IdOf(Find(subscriptions')) = IdOf(defaultSubscription))
       => /\ UNCHANGED cacheVars
          /\ last'.outcome = "noop"]_vars

\* A redundant notification arrived with credentials now available, after
\* the notification that stored the default had started no refresh.
C8_Witness ==
  /\ last.op = "notify"
  /\ last.outcome = "noop"
  /\ defaultSubscription # <<>>
  /\ lookupCredentials(credentials, defaultSubscription[1].tenantId)
  /\ refreshes = <<>>

\* C9 (failures never corrupt the cache): a step changes the CachedResult
\* of an id only by running the completion callback of a fulfilled refresh
\* for that id, which becomes the entry; so no entry is removed, and the
\* callback of a failed refresh changes none.
C9_CacheOnlyOnSuccess ==
  [][\A s \in Subs :
       current'[s] # current[s]
         => /\ current'[s] \in DOMAIN refreshes
            /\ refreshes[current'[s]].sub = s
            /\ refreshes[current'[s]].state = "fulfilled"
            /\ ~refreshes[current'[s]].handled
            /\ refreshes'[current'[s]].handled]_vars

\* The callback of a failed refresh has run for an id with a CachedResult.
C9_Witness ==
  \E r \in DOMAIN refreshes :
    /\ refreshes[r].state = "rejected"
    /\ refreshes[r].handled
    /\ current[refreshes[r].sub] # 0
    /\ current[refreshes[r].sub] < r

\* C10 as stated: once the latest refresh for an id has failed, the next
\* call for the id finds no PendingRefresh entry and starts a new refresh.
C10_AfterFailureStartsNew ==
  [][\A id \in Subs :
       (/\ NewCall(id)
        /\ LatestRefresh(id) # 0
        /\ refreshes[LatestRefresh(id)].state = "rejected")
         => /\ calls'[Len(calls')].found = 0
            /\ Len(refreshes') = Len(refreshes) + 1]_vars

\* C10 (amended): once the latest refresh for an id has failed and its
\* completion callback has run, the next call for the id finds no
\* PendingRefresh entry and starts a new refresh.
C10_AfterFailureHandledStartsNew ==
  [][\A id \in Subs :
       (/\ NewCall(id)
        /\ LatestRefresh(id) # 0
        /\ refreshes[LatestRefresh(id)].state = "rejected"
        /\ refreshes[LatestRefresh(id)].handled)
         => /\ calls'[Len(calls')].found = 0
            /\ Len(refreshes') = Len(refreshes) + 1
            /\ calls'[Len(calls')].update = Len(refreshes')
            /\ refreshes'[Len(refreshes')].state = "pending"]_vars

\* A call started the second refresh of an id whose first one failed.
C10_Witness ==
  \E i \in DOMAIN calls :
    /\ calls[i].found = 0
    /\ calls[i].update = 2
    /\ refreshes[1].sub = calls[i].sub
    /\ refreshes[1].state = "rejected"
    /\ refreshes[1].handled

\* The refresh started first for an id (0 if none was).
FirstRefresh(id) ==
  IF RefreshesOf(id) = {} THEN 0
  ELSE CHOOSE r \in RefreshesOf(id) : \A q \in RefreshesOf(id) : r <= q

\* C11 as stated: a call rejects with a refresh's error only on the first
\* refresh ever started for its subscription id.
C11_OnlyFirstRefreshSurfaces ==
  \A i \in DOMAIN calls :
    calls[i].state = "rejected" => calls[i].update = FirstRefresh(calls[i].sub)

\* C11 (amended): a call rejects with a refresh's error only if it found no
\* CachedResult, and then every refresh started for its id before its own
\* has failed; a call on a refresh started after one for the same id
\* succeeded never rejects, its failure being caught.
C11_SurfacesOnlyWithoutFallback ==
  \A i \in DOMAIN calls :
    /\ calls[i].state = "rejected"
         => /\ calls[i].cur = 0
            /\ \A r \in RefreshesOf(calls[i].sub) :
                 r < calls[i].update => refreshes[r].state = "rejected"
    /\ (\E r \in RefreshesOf(calls[i].sub) :
          r < calls[i].update /\ refreshes[r].state = "fulfilled")
         => /\ calls[i].cur # 0
            /\ calls[i].state # "rejected"

\* The failure of the second refresh of an id reached its caller, the
\* first refresh having failed too.
C11_Witness ==
  \E i \in DOMAIN calls :
    /\ calls[i].state = "rejected"
    /\ calls[i].update # FirstRefresh(calls[i].sub)
    /\ refreshes[FirstRefresh(calls[i].sub)].state = "rejected"

\* C12 (cache ordering): refreshes are numbered in the order in which they
\* were started; a step that replaces the CachedResult of an id puts a
\* refresh started later than the one it replaces, and the entry is never
\* older than a refresh for the id whose success callback has run.
C12_CacheOrdering ==
  [][\A s \in Subs :
       /\ current'[s] # current[s] => current'[s] > current[s]
       /\ \A r \in DOMAIN refreshes' :
            (/\ refreshes'[r].sub = s
             /\ refreshes'[r].state = "fulfilled"
             /\ refreshes'[r].handled)
              => current'[s] >= r]_vars

\* The result of a second successful refresh replaced that of the first.
C12_Witness ==
  \E s \in Subs :
    /\ current[s] = 2
    /\ refreshes[1].sub = s
    /\ refreshes[1].state = "fulfilled"
    /\ refreshes[1].handled

\* What C13 asks of the state a run of onSubscriptionUpdated leaves, given
\* the stored default it found, the refreshes and calls there were, and
\* the watcher's new default d, whose id differs from the stored one.
TrackerTriggered(d, oldRefreshes, oldCalls, oldUpdates) ==
  /\ defaultSubscription' = d
  /\ (d # <<>> /\ lookupCredentials(credentials', d[1].tenantId))
       => /\ updates'[d[1].id] \in DOMAIN refreshes'
          /\ refreshes'[updates'[d[1].id]].sub = d[1].id
          /\ ~refreshes'[updates'[d[1].id]].handled
          /\ Len(calls') = Len(oldCalls) + 1
  /\ (d = <<>> \/ ~lookupCredentials(credentials', d[1].tenantId))
       => /\ refreshes' = oldRefreshes
          /\ calls' = oldCalls
          /\ updates' = oldUpdates
          /\ last'.outcome \in {"stored", "none"}

\* The state the constructor leaves, by the same rule.
Constructed ==
  last.op = "constructor"
    => /\ defaultSubscription = Find(subscriptions)
       /\ (defaultSubscription # <<>>
           /\ lookupCredentials(credentials, defaultSubscription[1].tenantId))
            => (updates[defaultSubscription[1].id] = 1 /\ Len(calls) = 1)
       /\ (defaultSubscription = <<>>
           \/ ~lookupCredentials(credentials, defaultSubscription[1].tenantId))
            => (refreshes = <<>> /\ calls = <<>>)

\* C13 (subscription tracker trigger): the constructor, and every
\* notification whose default id differs from the stored one, stores the
\* watcher's default; with credentials for its tenant a PendingRefresh
\* entry exists for its id when the handler returns; without them (or with
\* no default) the default is stored all the same, nothing is started and
\* the handler ends normally.
C13_TrackerTrigger ==
  /\ []Constructed
  /\ [][(/\ last'.op = "notify"
         /\ IdOf(Find(subscriptions')) # IdOf(defaultSubscription))
          => TrackerTriggered(Find(subscriptions'), refreshes, calls,
                              updates)]_vars

\* A notification stored a new default and started nothing, for want of
\* credentials, while an earlier refresh exists.
C13_Witness ==
  /\ last.op = "notify"
  /\ last.outcome = "stored"
  /\ defaultSubscription # <<>>
  /\ ~lookupCredentials(credentials, defaultSubscription[1].tenantId)
  /\ refreshes # <<>>
  /\ updates[defaultSubscription[1].id] = 0

\* C14 (default tracking): until dispose the stored default has the id of
\* the watcher's first subscription marked default, or both are none; and
\* a step replaces the stored default only as a notification whose default
\* id differs from the stored id, by that default.
C14_DefaultTracking ==
  /\ [](~disposed => IdOf(defaultSubscription) = IdOf(Find(subscriptions)))
  /\ [][defaultSubscription' # defaultSubscription
         => /\ last'.op = "notify"
            /\ IdOf(Find(subscriptions')) # IdOf(defaultSubscription)
            /\ defaultSubscription' = Find(subscriptions')]_vars

\* A notification moved the stored default from s1 to s2.
C14_Witness ==
  /\ last.op = "notify"
  /\ last.outcome # "noop"
  /\ IdOf(defaultSubscription) = "s2"
  /\ refreshes # <<>>
  /\ refreshes[1].sub = "s1"

\* C15 (PendingRefresh lifecycle): the PendingRefresh entry of an id is a
\* refresh for that id whose completion callback has not run, and every
\* such refresh is the entry of its id; and a refresh that has settled
\* leads to its callback having run and its entry being gone.
C15_PendingLifecycle ==
  /\ [](\A r \in DOMAIN refreshes :
          updates[refreshes[r].sub] = r <=> ~refreshes[r].handled)
  /\ [](\A s \in Subs :
          updates[s] # 0 => (updates[s] \in DOMAIN refreshes
                             /\ refreshes[updates[s]].sub = s))
  /\ \A r \in 1..MaxRefreshes :
       (r \in DOMAIN refreshes /\ refreshes[r].state # "pending")
         ~> (/\ r \in DOMAIN refreshes
             /\ refreshes[r].handled
             /\ updates[refreshes[r].sub] # r)

\* A failed refresh has had its entry removed, and so has a successful one.
C15_Witness ==
  \E r, q \in DOMAIN refreshes :
    /\ refreshes[r].state = "rejected" /\ refreshes[r].handled
    /\ refreshes[q].state = "fulfilled" /\ refreshes[q].handled
    /\ \A s \in Subs : updates[s] = 0

\* C16 (no cancellation): whatever step is taken, the PendingRefresh entry
\* of a refresh goes only as its own completion callback runs, a settled
\* refresh stays as it settled, and the callback of a fulfilled refresh
\* makes it the CachedResult of its id; so a refresh that succeeds leads to
\* a CachedResult for its id that is this refresh or a later one, also
\* after the timer resolved its callers, after dispose and after the
\* default moved elsewhere.
C16_NoCancellation ==
  /\ [][\A r \in DOMAIN refreshes :
          LET s == refreshes[r].sub IN
          /\ r \in DOMAIN refreshes'
          /\ refreshes'[r].sub = s
          /\ refreshes[r].state # "pending"
               => refreshes'[r].state = refreshes[r].state
          /\ refreshes[r].handled => refreshes'[r].handled
          /\ (updates[s] = r /\ updates'[s] # r)
               => (/\ refreshes[r].state # "pending"
                   /\ ~refreshes[r].handled
                   /\ refreshes'[r].handled)
          /\ (~refreshes[r].handled /\ refreshes'[r].handled
              /\ refreshes[r].state = "fulfilled")
               => current'[s] = r]_vars
  /\ \A r \in 1..MaxRefreshes :
       (r \in DOMAIN refreshes /\ refreshes[r].state = "fulfilled")
         ~> (r \in DOMAIN refreshes /\ current[refreshes[r].sub] >= r)

\* A refresh became the CachedResult of its id after the timer had
\* resolved its caller, the default had moved away and dispose had run.
C16_Witness ==
  \E i \in DOMAIN calls :
    /\ calls[i].firedPending
    /\ disposed
    /\ IdOf(defaultSubscription) # calls[i].sub
    /\ refreshes[calls[i].update].handled
    /\ current[calls[i].sub] = calls[i].update

\* C17 (bounded wait): a call made with a CachedResult leads to that call
\* being resolved, with no fairness assumed of the remote listing; a call
\* made with none is settled only when its refresh has settled.
C17_BoundedWait ==
  /\ \A i \in 1..MaxCalls :
       (i \in DOMAIN calls /\ calls[i].cur # 0)
         ~> (i \in DOMAIN calls /\ calls[i].state = "fulfilled")
  /\ [](\A i \in DOMAIN calls :
          (calls[i].cur = 0 /\ calls[i].state # "pending")
            => refreshes[calls[i].update].state # "pending")

\* Every caller of a refresh that is still pending has been answered by
\* its timer.
C17_Witness ==
  \E r \in DOMAIN refreshes :
    /\ refreshes[r].state = "pending"
    /\ \E i \in DOMAIN calls : calls[i].update = r
    /\ \A i \in DOMAIN calls :
         calls[i].update = r => (calls[i].cur # 0 /\ calls[i].via = "timer")

\* C18 (per-subscription isolation): a step changes the PendingRefresh or
\* CachedResult entry of an id only by starting a refresh for that id or
\* by running the completion callback of one; a call holds and returns
\* only refreshes of its own id; and fetchGroups calls updateGroups for the
\* id of the stored default.
C18_Isolation ==
  /\ [][\A y \in Subs :
          (updates'[y] # updates[y] \/ current'[y] # current[y])
            => \/ /\ Len(refreshes') = Len(refreshes) + 1
                  /\ refreshes'[Len(refreshes')].sub = y
                  /\ current'[y] = current[y]
               \/ \E r \in DOMAIN refreshes :
                    /\ refreshes[r].sub = y
                    /\ ~refreshes[r].handled
                    /\ refreshes'[r].handled]_vars
  /\ [](\A i \in DOMAIN calls :
          /\ refreshes[calls[i].update].sub = calls[i].sub
          /\ calls[i].cur # 0 => refreshes[calls[i].cur].sub = calls[i].sub
          /\ calls[i].state = "fulfilled"
               => refreshes[calls[i].value].sub = calls[i].sub)
  /\ [][(last'.op = "fetch" /\ last'.outcome = "updateGroups")
          => NewCall(IdOf(defaultSubscription))]_vars

\* A call for the stored default was answered by a refresh of its id while
\* the refresh of the previous default is still in flight, its entry kept.
C18_Witness ==
  \E i \in DOMAIN calls, r \in DOMAIN refreshes :
    /\ calls[i].sub = IdOf(defaultSubscription)
    /\ calls[i].state = "fulfilled"
    /\ refreshes[calls[i].update].handled
    /\ refreshes[r].sub # calls[i].sub
    /\ refreshes[r].state = "pending"
    /\ updates[refreshes[r].sub] = r

\* C19 (provenance): a call resolves only with the CachedResult it found
\* when it was made or with the result of the refresh it waited for; and
\* at the step in which the timer resolves it, the value is the
\* CachedResult it found and is still the one stored for its id.
C19_Provenance ==
  /\ [](\A i \in DOMAIN calls :
          calls[i].state = "fulfilled"
            => /\ calls[i].value # 0
               /\ calls[i].value \in {calls[i].cur, calls[i].update}
               /\ refreshes[calls[i].value].state = "fulfilled")
  /\ [][\A i \in DOMAIN calls :
          (calls[i].state = "pending" /\ calls'[i].state = "fulfilled")
            => (calls'[i].via = "timer"
                  => /\ calls'[i].value = calls[i].cur
                     /\ calls'[i].value = current[calls[i].sub]
                     /\ calls'[i].value = current'[calls[i].sub])]_vars

\* The timer resolved one call with the CachedResult and the refresh, on
\* succeeding, resolved another call for the same id with the newer one.
C19_Witness ==
  \E i, j \in DOMAIN calls :
    /\ calls[i].sub = calls[j].sub
    /\ calls[i].via = "timer"
    /\ calls[i].value = calls[i].cur
    /\ calls[j].via = "update"
    /\ calls[j].value = calls[i].update
    /\ calls[j].cur = calls[i].cur

\* C20: once the first refresh for an id has succeeded and its completion
\* callback has run, no call for that id is rejected, and every call on a
\* later refresh for the id was made with a CachedResult.
C20_NoRejectAfterFirstSuccess ==
  \A id \in Subs :
    (/\ FirstRefresh(id) # 0
     /\ refreshes[FirstRefresh(id)].state = "fulfilled"
     /\ refreshes[FirstRefresh(id)].handled)
      => \A i \in CallsOf(id) :
           /\ calls[i].state # "rejected"
           /\ calls[i].update > FirstRefresh(id) => calls[i].cur # 0

\* After the first refresh of an id succeeded, a later refresh for it
\* failed and the call that waited for it has been answered all the same.
C20_Witness ==
  \E i \in DOMAIN calls :
    /\ refreshes[FirstRefresh(calls[i].sub)].state = "fulfilled"
    /\ calls[i].update > FirstRefresh(calls[i].sub)
    /\ refreshes[calls[i].update].state = "rejected"
    /\ refreshes[calls[i].update].handled
    /\ calls[i].state = "fulfilled"
    /\ calls[i].timer = "armed"

====
